---- MODULE Spec2Model ----
(***************************************************************************)
(* Model of the webpage summarizer (src/summarizer.py): one end-to-end     *)
(* request, either the command-line main() or a direct call of             *)
(* WebSummarizer.summarize_url.  The network, the HTML document and the    *)
(* provider are the environment: every attempt and every provider call     *)
(* draws its outcome from a small set.                                     *)
(*                                                                         *)
(* Strings that the code inspects (the URL, titles, body lines) are        *)
(* sequences of one-character strings; strings the code only passes on     *)
(* are TLA+ strings.  Optional[str] is None or Str(s).                     *)
(* Seconds (retry_delay, the sleeps) are integers.                         *)
(***************************************************************************)
EXTENDS Integers, Sequences, FiniteSets, TLC

VARIABLES
    entry,            \* "cli": main() runs; "api": summarize_url is called directly
    api_key,          \* os.getenv('OPENAI_API_KEY'): None or Str(s)
    output,           \* args.output given (cli)
    url,              \* the URL string
    document,         \* the parsed document behind the URL
    system_prompt,    \* summarize_url's system_prompt argument: None or Str(s)
    scraping_config,  \* ScrapingConfig: [max_retries, retry_delay]
    openai_config,    \* OpenAIConfig: [model, max_tokens, temperature]
    pc,               \* position of the request's thread of control
    constructed,      \* WebSummarizer (scraper and summarizer) has been built
    attempt,          \* scrape's loop variable
    gets,             \* number of session.get calls issued
    last,             \* outcome of the latest attempt's GET
    extract,          \* outcome of Website.from_response: "none", "ok", "fault"
    waits,            \* the time.sleep calls that completed, in order
    exhausted,        \* number of "Failed to scrape ... after N attempts" log lines
    scrape_calls,     \* number of calls of WebsiteScraper.scrape
    scrape_state,     \* "not_called", "running", "returned", "raised"
    website,          \* scrape's return value: None or a Website
    summarize_calls,  \* number of calls of OpenAISummarizer.summarize
    sent,             \* the requests sent to the provider, in order
    reply,            \* what the provider call ended with
    summary,          \* summarize's return value: "pending", None or Str(s)
    result,           \* summarize_url's outcome: [tag, val]
    saved,            \* the --output file was written
    exit_code,        \* "running", "0", "1"
    \* The web form (src/webapp.py): two concurrent submissions 1 and 2 in
    \* one server process, and the same two submissions 3 and 4 each alone in
    \* a process of its own.
    OPENAI_API_KEY,   \* webapp's module global: None or Str(s)
    server,           \* the site: its answer without and with its cookie
    provider,         \* the provider: its answer to each user prompt
    form,             \* the url field each submission posts
    req,              \* each submission's locals in index() and below
    sessions,         \* per process, the requests.Session objects (cookie jars)
    overlap           \* a GET of 1 or 2 happened while the other was in flight

vars == <<entry, api_key, output, url, document, system_prompt, scraping_config,
          openai_config, pc, constructed, attempt, gets, last, extract, waits,
          exhausted, scrape_calls, scrape_state, website, summarize_calls, sent, reply,
          summary, result, saved, exit_code, OPENAI_API_KEY, server, provider,
          form, req, sessions, overlap>>

webvars == <<OPENAI_API_KEY, server, provider, form, req, sessions, overlap>>

inputs == <<entry, api_key, output, url, document, system_prompt, scraping_config,
            openai_config>>

----------------------------------------------------------------------------
(* Bounds of the model *)

MaxUrlLen == 5
MaxRetries == 4
MaxDelay == 2
MaxTextLen == 4

----------------------------------------------------------------------------
(* Values *)

None == [tag |-> "None"]
Str(s) == [tag |-> "str", val |-> s]

\* Python truthiness of an Optional[str]: None and "" are falsy.
Truthy(v) == v # None /\ v.val # ""

Range(s) == {s[i] : i \in 1..Len(s)}

SeqsUpTo(S, n) == UNION {[1..k -> S] : k \in 0..n}

----------------------------------------------------------------------------
(* urllib.parse.urlparse, as far as summarize_url reads it *)

UrlChars == {"h", "1", ":", "/", "["}
Alpha == {"h"}
SchemeChars == {"h", "1"}

\* str.find for a set of characters: the least index >= start, 0 when absent.
FindFrom(s, cs, start) ==
    LET hits == {i \in start..Len(s) : s[i] \in cs}
    IN  IF hits = {} THEN 0 ELSE CHOOSE i \in hits : \A j \in hits : i <= j

urlparse(u) ==
    LET i == FindFrom(u, {":"}, 1)
        hasScheme == /\ i > 1
                     /\ u[1] \in Alpha
                     /\ \A k \in 1..(i - 1) : u[k] \in SchemeChars
        scheme == IF hasScheme THEN SubSeq(u, 1, i - 1) ELSE <<>>
        rest == IF hasScheme THEN SubSeq(u, i + 1, Len(u)) ELSE u
        hasNetloc == Len(rest) >= 2 /\ rest[1] = "/" /\ rest[2] = "/"
        delim == FindFrom(rest, {"/", "?", "#"}, 3)
        netloc == IF hasNetloc
                  THEN SubSeq(rest, 3, IF delim = 0 THEN Len(rest) ELSE delim - 1)
                  ELSE <<>>
        bad == ("[" \in Range(netloc)) # ("]" \in Range(netloc))
    IN  [raised |-> bad, scheme |-> scheme, netloc |-> netloc]

\* The validation with `and` for `or`: a URL without a host is let through.
UrlAccepted_SchemeOrHost(u) ==
    LET parsed == urlparse(u)
    IN  /\ ~parsed.raised
        /\ ~(parsed.scheme = <<>> /\ parsed.netloc = <<>>)

\* summarize_url's validation: TRUE when the URL goes on to the scraper.
UrlAccepted(u) ==
    LET parsed == urlparse(u)
    IN  /\ ~parsed.raised
        /\ ~(parsed.scheme = <<>> \/ parsed.netloc = <<>>)

----------------------------------------------------------------------------
(* The environment of one fetch attempt *)

Statuses == {101, 200, 304, 404, 503, 999}

NoAttempt == [kind |-> "none", status |-> 0]

\* What session.get can end with: a requests.exceptions.RequestException
\* (timeout, connection error), any other exception, or a final response.
GetOutcomes ==
    {[kind |-> k, status |-> 0] : k \in {"timeout", "connection", "other"}}
    \cup {[kind |-> "response", status |-> s] : s \in Statuses}

\* raise_for_status raising for server errors only.
raise_for_status_5xx(status) == 500 <= status /\ status < 600

\* requests.Response.raise_for_status raises HTTPError (a RequestException)
\* for 4xx and 5xx.
raise_for_status(status) == 400 <= status /\ status < 600

\* The attempt ends in the `except RequestException` handler.
RequestFailed(o) ==
    \/ o.kind \in {"timeout", "connection"}
    \/ o.kind = "response" /\ raise_for_status(o.status)

\* `attempt < self.config.max_retries - 1`
AttemptsRemain(i, max_retries) == i < max_retries - 1

\* A linear backoff, `retry_delay * (attempt + 1)`.
BackoffDelay_Linear(retry_delay, i) == retry_delay * (i + 1)

\* `self.config.retry_delay * (2 ** attempt)`
BackoffDelay(retry_delay, i) == retry_delay * (2 ^ i)

\* time.sleep raises ValueError for a negative argument.
SleepRaises(secs) == secs < 0

----------------------------------------------------------------------------
(* Website.from_response and Website.get_summary_prompt *)

Absent == [tag |-> "absent"]

remove_elements ==
    {"script", "style", "img", "input", "nav", "header", "footer", "aside"}

\* A parsed document (the BeautifulSoup tree).  soup.title is Absent or the
\* first title element with its child strings; soup.body is Absent or the
\* body element with its children.  A node is a text string or an element
\* with children.
TextNode(t) == [name |-> "#text", text |-> t, kids |-> <<>>]
Elem(n, kids) == [name |-> n, text |-> <<>>, kids |-> kids]
TitleElem(strings) == [tag |-> "title", strings |-> strings]
BodyElem(kids) == [tag |-> "body", kids |-> kids]

Whitespace == {" ", "\n"}

\* str.strip
Strip(s) ==
    LET idx == {i \in 1..Len(s) : s[i] \notin Whitespace}
        lo == CHOOSE i \in idx : \A j \in idx : i <= j
        hi == CHOOSE i \in idx : \A j \in idx : i >= j
    IN  IF idx = {} THEN <<>> ELSE SubSeq(s, lo, hi)

RECURSIVE Join(_)
\* '\n'.join(lines)
Join(lines) ==
    IF lines = <<>> THEN <<>>
    ELSE IF Len(lines) = 1 THEN lines[1]
    ELSE lines[1] \o <<"\n">> \o Join(Tail(lines))

RECURSIVE Split(_)
\* text.split('\n')
Split(s) ==
    LET i == FindFrom(s, {"\n"}, 1)
    IN  IF i = 0 THEN <<s>>
        ELSE <<SubSeq(s, 1, i - 1)>> \o Split(SubSeq(s, i + 1, Len(s)))

\* Tag.string: the only child when it is a string, else None.
TagString(strings) == IF Len(strings) = 1 THEN Str(strings[1]) ELSE None

\* The title without the second line's fallback and strip.
TitleOf_Unstripped(doc) ==
    IF doc.title = Absent \/ TagString(doc.title.strings) = None
    THEN <<"No title found">>
    ELSE TagString(doc.title.strings).val

\* `title = soup.title.string if soup.title else "No title found"`
\* `title = title.strip() if title else "No title found"`
TitleOf(doc) ==
    LET title == IF doc.title # Absent THEN TagString(doc.title.strings)
                 ELSE Str(<<"No title found">>)
    IN  IF title # None /\ title.val # <<>>
        THEN Strip(title.val)
        ELSE <<"No title found">>

RECURSIVE StringsLeft(_)
\* The strings under `kids`, in document order, once every element named in
\* remove_elements has been decomposed (at any depth).
StringsLeft(kids) ==
    IF kids = <<>> THEN <<>>
    ELSE LET n == Head(kids)
             here == IF n.name = "#text" THEN <<n.text>>
                     ELSE IF n.name \in remove_elements THEN <<>>
                     ELSE StringsLeft(n.kids)
         IN  here \o StringsLeft(Tail(kids))

NonBlank(line) == Strip(line) # <<>>

\* soup.body.get_text(separator="\n", strip=True): every string stripped, the
\* empty ones skipped, joined by the separator.
get_text(kids) ==
    LET strings == StringsLeft(kids)
        stripped == [i \in 1..Len(strings) |-> Strip(strings[i])]
    IN  Join(SelectSeq(stripped, NonBlank))

TextOf(doc) ==
    IF doc.body = Absent THEN <<"No content found">>
    ELSE LET text == get_text(doc.body.kids)
             kept == SelectSeq(Split(text), NonBlank)
             lines == [i \in 1..Len(kept) |-> Strip(kept[i])]
         IN  Join(lines)

\* Documents
TextChars == {" ", "\n", "c"}

Texts == SeqsUpTo(TextChars, MaxTextLen) \ {<<>>}

SampleTitle == TitleElem(<< <<" ", "T", " ">> >>)

SampleBody ==
    BodyElem(<< Elem("nav", <<TextNode(<<"n">>)>>),
                Elem("p", <<TextNode(<<" ", "c">>)>>),
                Elem("p", <<TextNode(<<" ">>)>>),
                Elem("div", <<TextNode(<<"d", " ">>)>>) >>)

\* The documents of the runs that vary the configuration.
Docs ==
    { [title |-> Absent, body |-> Absent],
      [title |-> SampleTitle, body |-> SampleBody] }

\* A title element has no child, one string, or two strings.
Titles ==
    {Absent, TitleElem(<<>>), TitleElem(<< <<"c">>, <<" ", "c">> >>)}
    \cup {TitleElem(<<t>>) : t \in Texts}

\* Bodies: empty, a bare string, a string in a kept element, in a removed
\* element, in a removed element nested in a kept one and the other way
\* round, and next to further strings.
Bodies ==
    {Absent, BodyElem(<<>>)}
    \cup {BodyElem(<<TextNode(t)>>) : t \in Texts}
    \cup {BodyElem(<<Elem("p", <<TextNode(t)>>)>>) : t \in Texts}
    \cup {BodyElem(<<Elem("nav", <<TextNode(t)>>), TextNode(<<"c">>)>>) :
             t \in Texts}
    \cup {BodyElem(<<Elem("div", <<TextNode(<<"c", " ">>),
                                   Elem("script", <<TextNode(t)>>)>>)>>) :
             t \in Texts}
    \cup {BodyElem(<<Elem("footer", <<Elem("p", <<TextNode(t)>>)>>)>>) :
             t \in Texts}
    \cup {BodyElem(<<Elem("p", <<TextNode(t)>>), TextNode(<<"\n">>),
                     Elem("p", <<TextNode(<<" ", "c">>)>>)>>) : t \in Texts}

\* <title>Test Site</title> and <body><p>Test content</p></body>
ExampleDoc ==
    [title |-> TitleElem(<< <<"Test Site">> >>),
     body |-> BodyElem(<<Elem("p", <<TextNode(<<"Test content">>)>>)>>)]

\* Every title with the sample body, every body with the sample title.
AllDocs ==
    {ExampleDoc}
    \cup {[title |-> ti, body |-> SampleBody] : ti \in Titles}
    \cup {[title |-> SampleTitle, body |-> b] : b \in Bodies}

SampleDoc == [title |-> SampleTitle, body |-> SampleBody]

NoPage == [title |-> Absent, body |-> Absent]

\* What the site answers to a GET: a timeout, a 503, or a page.
NoAnswer == [kind |-> "timeout", status |-> 0, doc |-> NoPage]

ServerAnswers ==
    { NoAnswer,
      [kind |-> "response", status |-> 503, doc |-> NoPage],
      [kind |-> "response", status |-> 200, doc |-> ExampleDoc],
      [kind |-> "response", status |-> 200, doc |-> SampleDoc] }

from_response(u, doc, status) ==
    [tag |-> "Website", url |-> u, title |-> TitleOf(doc), text |-> TextOf(doc),
     status_code |-> status]

get_summary_prompt(w) ==
    <<"You are looking at a website titled \"">> \o w.title
    \o <<"\"\n\nThe contents of this website is as follows; ...\n\n">> \o w.text

----------------------------------------------------------------------------
(* OpenAISummarizer.summarize: the request and the provider's answers *)

DefaultSystemPrompt == "You are an assistant that analyzes the contents of a website ..."

\* The default taken by truthiness, `if not system_prompt`.
EffectiveSystemPrompt_Falsy(sp) ==
    IF sp = None \/ sp.val = "" THEN DefaultSystemPrompt ELSE sp.val

\* `if system_prompt is None: system_prompt = <default>`
EffectiveSystemPrompt(sp) == IF sp = None THEN DefaultSystemPrompt ELSE sp.val

BuildMessages(sp, w) ==
    << [role |-> "system", content |-> EffectiveSystemPrompt(sp)],
       [role |-> "user", content |-> get_summary_prompt(w)] >>

BuildRequest(cfg, sp, w) ==
    [model |-> cfg.model, messages |-> BuildMessages(sp, w),
     max_tokens |-> cfg.max_tokens, temperature |-> cfg.temperature]

\* What chat.completions.create can end with: an openai.APIError, any other
\* exception, a response without choices, or a first choice whose message
\* content is None or a string.
ProviderOutcomes ==
    {[kind |-> k, content |-> None] : k \in {"api_error", "error", "no_choices"}}
    \cup {[kind |-> "content", content |-> c] :
             c \in {None, Str(""), Str("S1"), Str("S2")}}

NoReply == [kind |-> "none", content |-> None]

\* summarize's return value: response.choices[0].message.content, or None from
\* either except clause (an empty choices list raises IndexError).
SummarizeReturn(o) == IF o.kind = "content" THEN o.content ELSE None

----------------------------------------------------------------------------
(* Configurations and callers *)

DefaultScrapingConfig == [max_retries |-> 3, retry_delay |-> 1]

DefaultOpenAIConfig ==
    [model |-> "gpt-4o-mini", max_tokens |-> 1000, temperature |-> "0.7"]

\* --retries and --retry-delay are passed through unchecked.
ScrapingConfigs == [max_retries : (-1)..MaxRetries, retry_delay : (-1)..MaxDelay]

OpenAIConfigs ==
    {DefaultOpenAIConfig,
     [model |-> "gpt-4o", max_tokens |-> 1500, temperature |-> "0.3"]}

AcceptedUrl == <<"h", ":", "/", "/", "h">>

Pending == [tag |-> "pending", val |-> None]
Returned(v) == [tag |-> "returned", val |-> v]
Raised == [tag |-> "raised", val |-> None]

\* main() calls summarize_url(args.url); a direct caller may pass a prompt.
CallerCli ==
    /\ entry = "cli"
    /\ api_key \in {None, Str(""), Str("sk")}
    /\ output \in BOOLEAN
    /\ system_prompt = None

CallerApi ==
    /\ entry = "api"
    /\ api_key = Str("sk")
    /\ output = FALSE
    /\ system_prompt \in {None, Str(""), Str("custom")}

\* One attempt, the default delay.
SingleAttemptConfig == [max_retries |-> 1, retry_delay |-> 1]

InitInputs ==
    \/ \* every URL string, under the default configuration
       /\ url \in SeqsUpTo(UrlChars, MaxUrlLen)
       /\ document \in Docs
       /\ scraping_config = DefaultScrapingConfig
       /\ openai_config = DefaultOpenAIConfig
       /\ \/ CallerCli /\ api_key = Str("sk") /\ output = FALSE
          \/ CallerApi /\ system_prompt = None
    \/ \* an accepted URL, under every configuration and caller
       /\ url = AcceptedUrl
       /\ document \in Docs
       /\ scraping_config \in ScrapingConfigs
       /\ openai_config \in OpenAIConfigs
       /\ (CallerCli \/ CallerApi)
    \/ \* an accepted URL that serves any document
       /\ url = AcceptedUrl
       /\ document \in AllDocs
       /\ scraping_config = SingleAttemptConfig
       /\ openai_config = DefaultOpenAIConfig
       /\ CallerApi /\ system_prompt = None

\* No submission in the web form.
WebIdle ==
    /\ OPENAI_API_KEY = None
    /\ server = [fresh |-> NoAnswer, returning |-> NoAnswer]
    /\ provider = <<>>
    /\ form = <<>>
    /\ req = <<>>
    /\ sessions = <<>>
    /\ overlap = FALSE

\* The request's state when its caller starts.
InitRun ==
    /\ pc = IF entry = "cli" THEN "main" ELSE "validate"
    /\ constructed = (entry = "api")
    /\ attempt = 0
    /\ gets = 0
    /\ last = NoAttempt
    /\ extract = "none"
    /\ waits = <<>>
    /\ exhausted = 0
    /\ scrape_calls = 0
    /\ scrape_state = "not_called"
    /\ website = None
    /\ summarize_calls = 0
    /\ sent = <<>>
    /\ reply = NoReply
    /\ summary = Pending
    /\ result = Pending
    /\ saved = FALSE
    /\ exit_code = "running"

Init ==
    /\ InitInputs
    /\ InitRun
    /\ WebIdle

\* Where control goes when summarize_url returns.
ReturnPc == IF entry = "cli" THEN "report" ELSE "done"

\* Where control goes when summarize_url raises: main() has no handler.
RaisePc == IF entry = "cli" THEN "uncaught" ELSE "done"

----------------------------------------------------------------------------
(* main() *)

MainStart ==
    /\ pc = "main"
    /\ IF ~Truthy(api_key)
       THEN /\ exit_code' = "1"
            /\ pc' = "done"
            /\ UNCHANGED constructed
       ELSE /\ constructed' = TRUE
            /\ pc' = "validate"
            /\ UNCHANGED exit_code
    /\ UNCHANGED <<inputs, webvars, exhausted, attempt, gets, last, extract, waits, scrape_calls,
                   scrape_state, website, summarize_calls, sent, reply, summary,
                   result, saved>>

\* A main() that exits with 1 when the --output file cannot be written.
MainReport_SaveFailureExits1 ==
    /\ pc = "report"
    /\ IF Truthy(result.val)
       THEN /\ IF output THEN saved' \in BOOLEAN ELSE saved' = saved
            /\ exit_code' = IF output /\ ~saved' THEN "1" ELSE "0"
       ELSE /\ exit_code' = "1"
            /\ saved' = saved
    /\ pc' = "done"
    /\ UNCHANGED <<inputs, webvars, exhausted, constructed, attempt, gets, last, extract, waits,
                   scrape_calls, scrape_state, website, summarize_calls, sent,
                   reply, summary, result>>

MainReport ==
    /\ pc = "report"
    /\ IF Truthy(result.val)
       THEN /\ exit_code' = "0"
            /\ IF output THEN saved' \in BOOLEAN ELSE saved' = saved
       ELSE /\ exit_code' = "1"
            /\ saved' = saved
    /\ pc' = "done"
    /\ UNCHANGED <<inputs, webvars, exhausted, constructed, attempt, gets, last, extract, waits,
                   scrape_calls, scrape_state, website, summarize_calls, sent, reply,
                   summary, result>>

\* An exception leaving main() ends the interpreter with status 1.
MainUncaught ==
    /\ pc = "uncaught"
    /\ exit_code' = "1"
    /\ pc' = "done"
    /\ UNCHANGED <<inputs, webvars, exhausted, constructed, attempt, gets, last, extract, waits,
                   scrape_calls, scrape_state, website, summarize_calls, sent, reply,
                   summary, result, saved>>

----------------------------------------------------------------------------
(* WebSummarizer.summarize_url *)

SummarizeUrlValidate ==
    /\ pc = "validate"
    /\ IF UrlAccepted(url)
       THEN /\ scrape_calls' = scrape_calls + 1
            /\ scrape_state' = "running"
            /\ attempt' = 0
            /\ pc' = "for"
            /\ UNCHANGED result
       ELSE /\ result' = Returned(None)
            /\ pc' = ReturnPc
            /\ UNCHANGED <<scrape_calls, scrape_state, attempt>>
    /\ UNCHANGED <<inputs, webvars, exhausted, constructed, gets, last, extract, waits, website,
                   summarize_calls, sent, reply, summary, saved, exit_code>>

\* summarize_url without its `if not website: return None`.
SummarizeUrlCheckScrape_NoCheck ==
    /\ pc = "scraped"
    /\ pc' = "summarize"
    /\ UNCHANGED <<inputs, webvars, exhausted, constructed, attempt, gets, last, extract, waits,
                   scrape_calls, scrape_state, website, summarize_calls, sent,
                   reply, summary, result, saved, exit_code>>

SummarizeUrlCheckScrape ==
    /\ pc = "scraped"
    /\ IF website = None
       THEN /\ result' = Returned(None)
            /\ pc' = ReturnPc
       ELSE /\ pc' = "summarize"
            /\ UNCHANGED result
    /\ UNCHANGED <<inputs, webvars, exhausted, constructed, attempt, gets, last, extract, waits,
                   scrape_calls, scrape_state, website, summarize_calls, sent, reply,
                   summary, saved, exit_code>>

\* summarize_url ending with `return summary if summary else None`.
SummarizeUrlReturn_DropsFalsy ==
    /\ pc = "summarized"
    /\ result' = Returned(IF Truthy(summary) THEN summary ELSE None)
    /\ pc' = ReturnPc
    /\ UNCHANGED <<inputs, webvars, exhausted, constructed, attempt, gets, last, extract, waits,
                   scrape_calls, scrape_state, website, summarize_calls, sent,
                   reply, summary, saved, exit_code>>

SummarizeUrlReturn ==
    /\ pc = "summarized"
    /\ result' = Returned(summary)
    /\ pc' = ReturnPc
    /\ UNCHANGED <<inputs, webvars, exhausted, constructed, attempt, gets, last, extract, waits,
                   scrape_calls, scrape_state, website, summarize_calls, sent, reply,
                   summary, saved, exit_code>>

----------------------------------------------------------------------------
(* WebsiteScraper.scrape *)

\* A loop that tries once before it tests the bound.
ScrapeFor_AtLeastOnce ==
    /\ pc = "for"
    /\ IF attempt < scraping_config.max_retries \/ attempt = 0
       THEN /\ pc' = "try"
            /\ UNCHANGED <<scrape_state, website>>
       ELSE /\ scrape_state' = "returned"
            /\ website' = None
            /\ pc' = "scraped"
    /\ UNCHANGED <<inputs, webvars, exhausted, constructed, attempt, gets, last,
                   extract, waits, scrape_calls, summarize_calls, sent, reply,
                   summary, result, saved, exit_code>>

\* `for attempt in range(self.config.max_retries)`; falling off the loop
\* returns None.
ScrapeFor ==
    /\ pc = "for"
    /\ IF attempt < scraping_config.max_retries
       THEN /\ pc' = "try"
            /\ UNCHANGED <<scrape_state, website>>
       ELSE /\ scrape_state' = "returned"
            /\ website' = None
            /\ pc' = "scraped"
    /\ UNCHANGED <<inputs, webvars, exhausted, constructed, attempt, gets, last, extract, waits,
                   scrape_calls, summarize_calls, sent, reply, summary, result, saved,
                   exit_code>>

\* session.get and raise_for_status.
ScrapeGet ==
    /\ pc = "try"
    /\ \E o \in GetOutcomes :
          /\ last' = o
          /\ pc' = IF RequestFailed(o) THEN "except_request"
                   ELSE IF o.kind = "other" THEN "except_other"
                   ELSE "from_response"
    /\ gets' = gets + 1
    /\ UNCHANGED <<inputs, webvars, exhausted, constructed, attempt, extract, waits, scrape_calls,
                   scrape_state, website, summarize_calls, sent, reply, summary,
                   result, saved, exit_code>>

\* `return Website.from_response(url, response, self.config)`
ScrapeFromResponse ==
    /\ pc = "from_response"
    /\ \/ /\ extract' = "ok"
          /\ website' = from_response(url, document, last.status)
          /\ scrape_state' = "returned"
          /\ pc' = "scraped"
       \/ /\ extract' = "fault"
          /\ pc' = "except_other"
          /\ UNCHANGED <<website, scrape_state>>
    /\ UNCHANGED <<inputs, webvars, exhausted, constructed, attempt, gets, last, waits,
                   scrape_calls, summarize_calls, sent, reply, summary, result, saved,
                   exit_code>>

\* `except requests.exceptions.RequestException`
ScrapeExceptRequest ==
    /\ pc = "except_request"
    /\ IF AttemptsRemain(attempt, scraping_config.max_retries)
       THEN LET secs == BackoffDelay(scraping_config.retry_delay, attempt)
            IN  IF SleepRaises(secs)
                THEN /\ scrape_state' = "raised"
                     /\ result' = Raised
                     /\ pc' = RaisePc
                     /\ UNCHANGED <<waits, attempt, website, exhausted>>
                ELSE /\ waits' = Append(waits, secs)
                     /\ attempt' = attempt + 1
                     /\ pc' = "for"
                     /\ UNCHANGED <<scrape_state, result, website, exhausted>>
       ELSE /\ exhausted' = exhausted + 1
            /\ scrape_state' = "returned"
            /\ website' = None
            /\ pc' = "scraped"
            /\ UNCHANGED <<waits, attempt, result>>
    /\ UNCHANGED <<inputs, webvars, constructed, gets, last, extract, scrape_calls,
                   summarize_calls, sent, reply, summary, saved, exit_code>>

\* An `except Exception` handler that retries like the RequestException one.
ScrapeExceptOther_Retries ==
    /\ pc = "except_other"
    /\ IF AttemptsRemain(attempt, scraping_config.max_retries)
       THEN /\ waits' = Append(waits, 0)
            /\ attempt' = attempt + 1
            /\ pc' = "for"
            /\ UNCHANGED <<scrape_state, website>>
       ELSE /\ scrape_state' = "returned"
            /\ website' = None
            /\ pc' = "scraped"
            /\ UNCHANGED <<waits, attempt>>
    /\ UNCHANGED <<inputs, webvars, exhausted, constructed, gets, last, extract, scrape_calls,
                   summarize_calls, sent, reply, summary, result, saved,
                   exit_code>>

\* `except Exception`
ScrapeExceptOther ==
    /\ pc = "except_other"
    /\ scrape_state' = "returned"
    /\ website' = None
    /\ pc' = "scraped"
    /\ UNCHANGED <<inputs, webvars, exhausted, constructed, attempt, gets, last, extract, waits,
                   scrape_calls, summarize_calls, sent, reply, summary, result, saved,
                   exit_code>>

----------------------------------------------------------------------------
(* OpenAISummarizer.summarize *)

Summarize ==
    /\ pc = "summarize"
    /\ summarize_calls' = summarize_calls + 1
    /\ sent' = Append(sent, BuildRequest(openai_config, system_prompt, website))
    /\ \E o \in ProviderOutcomes :
          /\ reply' = o
          /\ summary' = SummarizeReturn(o)
    /\ pc' = "summarized"
    /\ UNCHANGED <<inputs, webvars, exhausted, constructed, attempt, gets, last, extract, waits,
                   scrape_calls, scrape_state, website, result, saved,
                   exit_code>>

----------------------------------------------------------------------------

Next ==
    \/ MainStart
    \/ SummarizeUrlValidate
    \/ ScrapeFor
    \/ ScrapeGet
    \/ ScrapeFromResponse
    \/ ScrapeExceptRequest
    \/ ScrapeExceptOther
    \/ SummarizeUrlCheckScrape
    \/ Summarize
    \/ SummarizeUrlReturn
    \/ MainReport
    \/ MainUncaught

Spec == Init /\ [][Next]_vars

----------------------------------------------------------------------------
(* The web form: index() of src/webapp.py, two submissions at once *)

Concurrent == {1, 2}
Alone == {3, 4}
Submissions == Concurrent \cup Alone

\* The server process a submission runs in: 1 and 2 share one, 3 and 4 have
\* one each.
Process(p) == IF p \in Concurrent THEN 0 ELSE p

\* The user prompts of the pages the site can serve.
ServedPrompts ==
    {get_summary_prompt(from_response(AcceptedUrl, d, 200)) :
        d \in {ExampleDoc, SampleDoc}}

ProviderAnswers ==
    { [kind |-> "api_error", content |-> None],
      [kind |-> "content", content |-> Str("S1")],
      [kind |-> "content", content |-> Str("S2")] }

FormUrls == { <<" ">>, <<"h">>, <<" ">> \o AcceptedUrl }

NoPageYet == [summary |-> None, error |-> None, url |-> <<>>]

Locals ==
    [pc |-> "start", url |-> <<>>, session |-> 0, attempt |-> 0,
     website |-> None, summary |-> None, page |-> NoPageYet]

InitRunIdle ==
    /\ entry = "api"
    /\ api_key = Str("sk")
    /\ output = FALSE
    /\ url = AcceptedUrl
    /\ document = SampleDoc
    /\ system_prompt = None
    /\ scraping_config = DefaultScrapingConfig
    /\ openai_config = DefaultOpenAIConfig
    /\ InitRun

InitWeb ==
    /\ InitRunIdle
    /\ OPENAI_API_KEY \in {None, Str(""), Str("sk")}
    /\ server \in [fresh : ServerAnswers, returning : ServerAnswers]
    /\ provider \in [ServedPrompts -> ProviderAnswers]
    /\ \E f \in [Concurrent -> FormUrls] :
          form = [p \in Submissions |-> IF p \in Concurrent THEN f[p] ELSE f[p - 2]]
    /\ req = [p \in Submissions |-> Locals]
    /\ sessions = [w \in {0, 3, 4} |-> <<>>]
    /\ overlap = FALSE

\* 3 and 4 run one after the other once 1 and 2 are done.
MayRun(p) == p \in Concurrent \/ \A q \in 1..(p - 1) : req[q].pc = "done"

Finish(p, summary_, error_) ==
    [req EXCEPT ![p].pc = "done",
                ![p].page = [summary |-> summary_, error |-> error_,
                             url |-> Strip(form[p])]]

\* index(): the form field and the credential.
WebStart(p) ==
    /\ MayRun(p)
    /\ req[p].pc = "start"
    /\ LET u == Strip(form[p])
       IN  req' = IF u = <<>>
                  THEN Finish(p, None, Str("Please enter a URL."))
                  ELSE IF ~Truthy(OPENAI_API_KEY)
                  THEN Finish(p, None, Str("OpenAI API key not found. Please set OPENAI_API_KEY in your environment."))
                  ELSE [req EXCEPT ![p].pc = "construct", ![p].url = u]
    /\ UNCHANGED <<inputs, pc, constructed, attempt, gets, last, extract, waits,
                   exhausted, scrape_calls, scrape_state, website,
                   summarize_calls, sent, reply, summary, result, saved,
                   exit_code, OPENAI_API_KEY, server, provider, form, sessions,
                   overlap>>

\* One scraper, and so one Session, for the whole process.
WebConstruct_SharedScraper(p) ==
    /\ MayRun(p)
    /\ req[p].pc = "construct"
    /\ sessions' = IF sessions[Process(p)] = <<>>
                   THEN [sessions EXCEPT ![Process(p)] = <<FALSE>>]
                   ELSE sessions
    /\ req' = [req EXCEPT ![p].pc = "validate", ![p].session = 1]
    /\ UNCHANGED <<inputs, pc, constructed, attempt, gets, last, extract, waits,
                   exhausted, scrape_calls, scrape_state, website,
                   summarize_calls, sent, reply, summary, result, saved,
                   exit_code, OPENAI_API_KEY, server, provider, form, overlap>>

\* index(): OpenAIConfig(...) and WebSummarizer(openai_config), which builds a
\* ScrapingConfig, a WebsiteScraper with a new requests.Session, and an
\* OpenAISummarizer.
WebConstruct(p) ==
    /\ MayRun(p)
    /\ req[p].pc = "construct"
    /\ sessions' = [sessions EXCEPT ![Process(p)] = Append(@, FALSE)]
    /\ req' = [req EXCEPT ![p].pc = "validate",
                          ![p].session = Len(sessions[Process(p)]) + 1]
    /\ UNCHANGED <<inputs, pc, constructed, attempt, gets, last, extract, waits,
                   exhausted, scrape_calls, scrape_state, website,
                   summarize_calls, sent, reply, summary, result, saved,
                   exit_code, OPENAI_API_KEY, server, provider, form, overlap>>

\* summarize_url: the URL validation.
WebValidate(p) ==
    /\ MayRun(p)
    /\ req[p].pc = "validate"
    /\ req' = IF UrlAccepted(req[p].url)
              THEN [req EXCEPT ![p].pc = "attempt", ![p].attempt = 0]
              ELSE [req EXCEPT ![p].pc = "render", ![p].summary = None]
    /\ UNCHANGED <<inputs, pc, constructed, attempt, gets, last, extract, waits,
                   exhausted, scrape_calls, scrape_state, website,
                   summarize_calls, sent, reply, summary, result, saved,
                   exit_code, OPENAI_API_KEY, server, provider, form, sessions,
                   overlap>>

\* scrape: one pass of the loop.  The GET sends the session's cookie and
\* stores the cookie the site sets with every response.
WebAttempt(p) ==
    /\ MayRun(p)
    /\ req[p].pc = "attempt"
    /\ LET cfg == DefaultScrapingConfig
           w == Process(p)
           sid == req[p].session
           o == IF sessions[w][sid] THEN server.returning ELSE server.fresh
       IN  IF req[p].attempt >= cfg.max_retries
           THEN /\ req' = [req EXCEPT ![p].pc = "render", ![p].summary = None]
                /\ UNCHANGED <<sessions, overlap>>
           ELSE /\ sessions' = [sessions EXCEPT
                                  ![w][sid] = @ \/ o.kind = "response"]
                /\ overlap' =
                      (overlap \/ \E q \in Concurrent \ {p} :
                          /\ p \in Concurrent
                          /\ req[q].pc \in {"attempt", "summarize", "render"})
                /\ req' =
                      IF RequestFailed(o)
                      THEN IF AttemptsRemain(req[p].attempt, cfg.max_retries)
                           THEN IF SleepRaises(BackoffDelay(cfg.retry_delay,
                                                            req[p].attempt))
                                THEN Finish(p, None, Str("Error: sleep length must be non-negative"))
                                ELSE [req EXCEPT ![p].attempt = @ + 1]
                           ELSE [req EXCEPT ![p].pc = "render",
                                            ![p].summary = None]
                      ELSE [req EXCEPT
                              ![p].pc = "summarize",
                              ![p].website =
                                  from_response(req[p].url, o.doc, o.status)]
    /\ UNCHANGED <<inputs, pc, constructed, attempt, gets, last, extract, waits,
                   exhausted, scrape_calls, scrape_state, website,
                   summarize_calls, sent, reply, summary, result, saved,
                   exit_code, OPENAI_API_KEY, server, provider, form>>

\* summarize, with the request's own OpenAI client.
WebSummarize(p) ==
    /\ MayRun(p)
    /\ req[p].pc = "summarize"
    /\ req' = [req EXCEPT
                 ![p].pc = "render",
                 ![p].summary = SummarizeReturn(
                     provider[get_summary_prompt(req[p].website)])]
    /\ UNCHANGED <<inputs, pc, constructed, attempt, gets, last, extract, waits,
                   exhausted, scrape_calls, scrape_state, website,
                   summarize_calls, sent, reply, summary, result, saved,
                   exit_code, OPENAI_API_KEY, server, provider, form, sessions,
                   overlap>>

\* index(): `if not summary: error = ...` and the rendered page.
WebRender(p) ==
    /\ MayRun(p)
    /\ req[p].pc = "render"
    /\ req' = Finish(p, req[p].summary,
                     IF Truthy(req[p].summary) THEN None
                     ELSE Str("Could not generate summary. The URL may be invalid or the site could not be scraped."))
    /\ UNCHANGED <<inputs, pc, constructed, attempt, gets, last, extract, waits,
                   exhausted, scrape_calls, scrape_state, website,
                   summarize_calls, sent, reply, summary, result, saved,
                   exit_code, OPENAI_API_KEY, server, provider, form, sessions,
                   overlap>>

NextWeb ==
    \/ \E p \in Submissions : WebStart(p)
    \/ \E p \in Submissions : WebConstruct(p)
    \/ \E p \in Submissions : WebValidate(p)
    \/ \E p \in Submissions : WebAttempt(p)
    \/ \E p \in Submissions : WebSummarize(p)
    \/ \E p \in Submissions : WebRender(p)

SpecWeb == InitWeb /\ [][NextWeb]_vars

----------------------------------------------------------------------------
(* Properties *)

\* summarize_url has run its validation.
ValidationDone == constructed /\ pc \notin {"main", "validate"}

\* summarize_url has ended, by a return or by an exception.
SummarizeUrlEnded == result.tag # "pending"

\* C1: for a URL whose parsed scheme is empty or whose parsed host is empty,
\* summarize_url returns None and neither the scraper nor the summarizer is
\* invoked: no GET and no provider request happens in that run.
C1_InvalidUrlNoNetwork ==
    LET parsed == urlparse(url)
    IN  (~parsed.raised /\ (parsed.scheme = <<>> \/ parsed.netloc = <<>>)) =>
            /\ scrape_calls = 0
            /\ gets = 0
            /\ summarize_calls = 0
            /\ sent = <<>>
            /\ ValidationDone => result = Returned(None)

\* A URL with a scheme and no host ("h:/h") was rejected.
C1_Witness ==
    /\ pc = "done"
    /\ ~urlparse(url).raised
    /\ urlparse(url).scheme # <<>>
    /\ urlparse(url).netloc = <<>>
    /\ result = Returned(None)
    /\ gets = 0

\* C2: when scrape returns None, summarize_url returns None and summarize is
\* never invoked; in every run scrape and summarize are each called at most
\* once, and summarize only after scrape has returned a page.
C2_FetchFailureSkipsSummarizer ==
    /\ scrape_calls <= 1
    /\ summarize_calls <= 1
    /\ (pc \in {"summarize", "summarized"} \/ summarize_calls > 0) =>
          /\ scrape_calls = 1
          /\ scrape_state = "returned"
          /\ website # None
    /\ (scrape_state = "returned" /\ website = None) =>
          /\ summarize_calls = 0
          /\ sent = <<>>
          /\ pc # "scraped" => result = Returned(None)

\* Every attempt failed, at least two were made, and the run ended in failure
\* without a provider request.
C2_Witness ==
    /\ pc = "done"
    /\ scrape_state = "returned"
    /\ website = None
    /\ gets = scraping_config.max_retries
    /\ gets >= 2
    /\ result = Returned(None)
    /\ summarize_calls = 0

\* C3: when the fetch succeeded, summarize_url returns what the provider call
\* produced: the first choice's content unchanged, or None when the call
\* failed.
C3_ReturnsSummarizerResult ==
    (scrape_state = "returned" /\ website # None /\ SummarizeUrlEnded) =>
        /\ summarize_calls = 1
        /\ reply # NoReply
        /\ result = Returned(IF reply.kind = "content" THEN reply.content ELSE None)

\* An empty text came back from the provider and was returned as it is.
C3_Witness ==
    /\ pc = "done"
    /\ website # None
    /\ reply = [kind |-> "content", content |-> Str("")]
    /\ result = Returned(Str(""))

\* scrape has ended, by a return or by an exception.
ScrapeEnded == scrape_state \in {"returned", "raised"}

\* The latest attempt ended in a request error (timeout, connection error or
\* an HTTPError from raise_for_status).
LastWasRequestError ==
    \/ last.kind \in {"timeout", "connection"}
    \/ last.kind = "response" /\ 400 <= last.status /\ last.status <= 599

\* C4: for max_retries >= 1 scrape issues at most max_retries GETs; a page it
\* returns comes from its latest attempt, which succeeded; and when every
\* attempt failed with a request error it has issued exactly max_retries GETs
\* and returns None instead of raising.  (An attempt sequence still running
\* or ended by an earlier success or fault has a latest attempt that is no
\* request error, so "the latest attempt was a request error and scrape has
\* ended" is "every attempt failed with a request error".)
C4_BoundedAttemptsThenFailure ==
    scraping_config.max_retries >= 1 =>
        /\ gets <= scraping_config.max_retries
        /\ website # None =>
              /\ last.kind = "response"
              /\ ~LastWasRequestError
              /\ website.status_code = last.status
        /\ (ScrapeEnded /\ LastWasRequestError) =>
              /\ gets = scraping_config.max_retries
              /\ scrape_state = "returned"
              /\ website = None

\* C5: the wait after the failed attempt with 0-based index i equals
\* retry_delay * 2^i; every failed attempt that is not the last is followed by
\* one wait, and no wait follows the last failed attempt or a successful one.
C5_ExponentialBackoff ==
    /\ \A i \in 1..Len(waits) :
          waits[i] = scraping_config.retry_delay * (2 ^ (i - 1))
    /\ Len(waits) = attempt
    /\ pc \in {"for", "try"} => gets = attempt
    /\ (ScrapeEnded /\ gets > 0) => Len(waits) = gets - 1

\* Four attempts with base delay 2: the waits were 2, 4 and 8 seconds, and
\* none followed the fourth failure.
C5_Witness ==
    /\ ScrapeEnded
    /\ scraping_config.retry_delay = 2
    /\ gets = 4
    /\ waits = <<2, 4, 8>>
    /\ website = None

FaultSeen == last.kind = "other" \/ extract = "fault"

\* C7: once an attempt has ended with a fault that is no request error, the
\* handler returns None at once: no further GET (the faulty attempt stays the
\* latest one), no wait after it, whatever number of attempts remained.
C7_UnexpectedFaultIsTerminal ==
    (FaultSeen /\ pc # "except_other") =>
        /\ scrape_state = "returned"
        /\ website = None
        /\ Len(waits) = gets - 1
        /\ pc \in {"scraped", "report", "done"}
        /\ result \in {Pending, Returned(None)}

\* The first of four attempts got a response whose extraction faulted: the
\* run ended in failure after one GET and no wait.
C7_Witness ==
    /\ pc = "done"
    /\ extract = "fault"
    /\ scraping_config.max_retries = 4
    /\ gets = 1
    /\ waits = <<>>
    /\ result = Returned(None)

\* The request summarize has to send for the page in hand.
ExpectedRequest ==
    [model |-> openai_config.model,
     messages |->
        << [role |-> "system",
            content |-> IF system_prompt = None THEN DefaultSystemPrompt
                        ELSE system_prompt.val],
           [role |-> "user", content |-> get_summary_prompt(website)] >>,
     max_tokens |-> openai_config.max_tokens,
     temperature |-> openai_config.temperature]

\* C8: each call of summarize sends exactly one request, whose messages are
\* the system message (the caller's override when given, else the default)
\* followed by the user message, with the configured model, max_tokens and
\* temperature; a request that failed is not sent again.
C8_OneRequestPerCall ==
    /\ Len(sent) = summarize_calls
    /\ \A i \in 1..Len(sent) : sent[i] = ExpectedRequest
    /\ reply.kind \in {"api_error", "error", "no_choices"} =>
          /\ Len(sent) = 1
          /\ summary = None

\* A call with an empty override and the non-default configuration ended in
\* an API error: one request was sent.
C8_Witness ==
    /\ pc = "done"
    /\ system_prompt = Str("")
    /\ openai_config # DefaultOpenAIConfig
    /\ reply.kind = "api_error"
    /\ Len(sent) = 1
    /\ sent[1].messages[1].content = ""

\* C9: summarize_url ends by returning the summary text or None, whatever
\* fault occurs in a stage: it never ends with an exception.
C9_NoFaultLeavesSummarizeUrl ==
    /\ result.tag # "raised"
    /\ scrape_state # "raised"
    /\ result.tag = "returned" => (result.val = None \/ result.val.tag = "str")

\* main() has exited.
Exited == entry = "cli" /\ pc = "done"

\* C10 as stated: exit code 1 when the credential is missing (nothing was
\* constructed or run) or the summary failed, 0 in every other run; a run in
\* which summarize_url returned the provider's text exits 0.
C10_Original_ExitCodes ==
    Exited =>
        /\ ~Truthy(api_key) =>
              /\ exit_code = "1"
              /\ ~constructed
              /\ scrape_calls = 0
              /\ summarize_calls = 0
        /\ (result.tag = "returned" /\ result.val # None) => exit_code = "0"
        /\ (Truthy(api_key) /\ (result.tag = "raised" \/ result.val = None)) =>
              exit_code = "1"

\* C10 amended: exit code 1 when the credential is missing or empty (nothing
\* was constructed or run) or when summarize_url did not return a non-empty
\* text (it returned None or the empty string, or ended with an exception);
\* 0 in every other run, also when writing the --output file failed.
C10_ExitCodes ==
    Exited =>
        /\ exit_code \in {"0", "1"}
        /\ ~Truthy(api_key) =>
              /\ exit_code = "1"
              /\ ~constructed
              /\ scrape_calls = 0
              /\ gets = 0
              /\ summarize_calls = 0
        /\ Truthy(api_key) =>
              (exit_code = "0" <=>
                  /\ result.tag = "returned"
                  /\ result.val # None
                  /\ result.val.val # "")

\* A summary was produced, the --output file could not be written, and the
\* exit code is 0.
C10_Witness ==
    /\ Exited
    /\ result = Returned(Str("S1"))
    /\ output
    /\ ~saved
    /\ exit_code = "0"

RECURSIVE Concat(_)
\* The strings of a sequence, one after the other.
Concat(ss) == IF ss = <<>> THEN <<>> ELSE Head(ss) \o Concat(Tail(ss))

RECURSIVE TrimmedLines(_)
\* The non-empty trimmed lines of a sequence of strings: each string cut at
\* its newlines, each piece trimmed, the empty pieces dropped.
TrimmedLines(ss) ==
    IF ss = <<>> THEN <<>>
    ELSE LET pieces == Split(Head(ss))
             kept == SelectSeq(pieces, NonBlank)
         IN  [i \in 1..Len(kept) |-> Strip(kept[i])] \o TrimmedLines(Tail(ss))

\* A page was extracted from the document.
Extracted == website # None

\* The sentinels, and the body text of a document that has a body (the lines
\* of the text left once the remove_elements are gone).
SentinelsAndBodyText ==
    /\ document.title = Absent => website.title = <<"No title found">>
    /\ document.body = Absent => website.text = <<"No content found">>
    /\ document.body # Absent =>
          website.text = Join(TrimmedLines(StringsLeft(document.body.kids)))

\* C12 as stated: without a title element the title is "No title found",
\* without a body element the text is "No content found"; with a title
\* element the title is the element's text trimmed, with a body the text is
\* its non-empty trimmed lines joined by single newlines.
C12_Original_TitleIsElementText ==
    Extracted =>
        /\ SentinelsAndBodyText
        /\ document.title # Absent =>
              website.title = Strip(Concat(document.title.strings))

\* C12 amended: as stated, but the title is the trimmed text only for a title
\* element that holds exactly one string; a title element with no string or
\* with several children yields "No title found".
C12_ExtractedTitleAndText ==
    Extracted =>
        /\ SentinelsAndBodyText
        /\ (document.title # Absent /\ Len(document.title.strings) = 1) =>
              website.title = Strip(document.title.strings[1])
        /\ (document.title # Absent /\ Len(document.title.strings) # 1) =>
              website.title = <<"No title found">>

\* The example document was extracted to "Test Site" and "Test content".
C12_Witness ==
    /\ Extracted
    /\ document = ExampleDoc
    /\ website.title = <<"Test Site">>
    /\ website.text = <<"Test content">>

\* C13: with max_retries <= 0 scrape issues no GET, waits for no backoff,
\* logs no exhaustion line and returns None, so summarize_url on a well-formed
\* URL returns None without network activity and without calling summarize.
C13_NoAttemptsWhenRetriesNotPositive ==
    scraping_config.max_retries <= 0 =>
        /\ gets = 0
        /\ last = NoAttempt
        /\ waits = <<>>
        /\ exhausted = 0
        /\ summarize_calls = 0
        /\ sent = <<>>
        /\ scrape_state \in {"not_called", "running", "returned"}
        /\ website = None
        /\ (ValidationDone /\ UrlAccepted(url)) => scrape_calls = 1
        /\ (ValidationDone /\ pc \notin {"for", "scraped"}) =>
              result = Returned(None)

\* main() ran with --retries 0 on a well-formed URL: scrape was called,
\* returned None without a GET, and the exit code is 1.
C13_Witness ==
    /\ Exited
    /\ scraping_config.max_retries = 0
    /\ UrlAccepted(url)
    /\ scrape_calls = 1
    /\ scrape_state = "returned"
    /\ gets = 0
    /\ result = Returned(None)
    /\ exit_code = "1"

\* C11: two concurrent submissions share no mutable state, each has a
\* Session of its own, and under every interleaving each one's page is the
\* page the same submission gets when it runs alone.
C11_ConcurrentRequestsIndependent ==
    /\ \A p \in Concurrent : \A q \in Concurrent \ {p} :
          (req[p].session # 0 /\ req[q].session # 0) =>
              req[p].session # req[q].session
    /\ \A p \in Concurrent :
          (req[p].pc = "done" /\ req[p + 2].pc = "done") =>
              req[p].page = req[p + 2].page

\* Both submissions fetched the same site while the other was in flight; the
\* site answers a returning client with another page than a new one, the
\* provider answers the two pages differently, and all four runs are done.
C11_Witness ==
    /\ \A p \in Submissions : req[p].pc = "done"
    /\ overlap
    /\ server.fresh.doc = ExampleDoc
    /\ server.returning.doc = SampleDoc
    /\ \A p \in Concurrent :
          /\ req[p].page.summary = Str("S1")
          /\ req[p].website.title = <<"Test Site">>
    /\ \E x \in ServedPrompts : provider[x].content = Str("S2")

====
